---- MODULE Spec2Model ----
(***************************************************************************)
(* State machine of src/app/index.tsx: the App component's view state      *)
(* (todos, modalVisible, editing), the TodoModal component's field state   *)
(* (text, description) and the wall clock read by Date.now().  An action   *)
(* is one event handler with the render it causes.  The field-reset effect *)
(* of TodoModal is a step of its own: React runs it after the render that  *)
(* changed its dependencies was committed, so a handler may run before it  *)
(* and reads the fields not yet reset; React runs a waiting effect before  *)
(* it starts the next render.                                              *)
(*                                                                         *)
(* The handlers of the list and of the add button have no test of          *)
(* modalVisible in the code, so they are enabled whether the modal is      *)
(* shown or not; the handlers of TodoModal need the modal shown.  The      *)
(* handlers that take an identifier are given any identifier, also one no  *)
(* record has.                                                             *)
(*                                                                         *)
(* A JavaScript string is the sequence of its UTF-16 code units, so that   *)
(* String.prototype.trim and Number.prototype.toString are computed.       *)
(***************************************************************************)
EXTENDS Integers, Sequences, FiniteSets

VARIABLES
    todos,          \* App: useState<Todo[]>([])
    modalVisible,   \* App: useState(false)
    editing,        \* App: useState<{id,text,description} | null>(null)
    text,           \* TodoModal: useState(initialText || "")
    description,    \* TodoModal: useState(initialDescription || "")
    pending,        \* TodoModal: the effect is scheduled and has not run yet
    now,            \* the value Date.now() returns
    removed,        \* history, kept under SpecRecorded: identifiers of the records
                    \* handleDelete has deleted
    last            \* history: what the TodoModal handler of the last step did
                    \* ("none" when the last step ran no handler of TodoModal)

vars ==
    <<todos, modalVisible, editing, text, description, pending, now, removed, last>>

----------------------------------------------------------------------------
(* Bounds of the model *)

\* the list holds at most this many records (Save is not pressed beyond it)
MaxTodos == 2
\* Date.now() takes the values 0..MaxClock
MaxClock == 1

(* Program constants *)

\* maxLength of the title input
TitleMaxLength == 100
\* maxLength of the description input
DescriptionMaxLength == 300

----------------------------------------------------------------------------
(* Strings *)

\* the code units trim strips: the WhiteSpace and LineTerminator of ECMAScript
\* (TAB LF VT FF CR SP NBSP, U+1680, U+2000..U+200A, LS, PS, U+202F, U+205F,
\* U+3000, BOM)
WhiteSpace ==
    {9, 10, 11, 12, 13, 32, 160, 5760} \cup (8192..8202)
        \cup {8232, 8233, 8239, 8287, 12288, 65279}

\* what the user may type into the title field: TAB NBSP, " a", "b"
TypedTitles == { <<9, 160>>, <<32, 97>>, <<98>> }
\* what the user may type into the multiline description field: "n" LF
TypedDescriptions == { <<110, 10>> }

RECURSIVE TrimStart(_)
TrimStart(s) ==
    IF s # <<>> /\ Head(s) \in WhiteSpace THEN TrimStart(Tail(s)) ELSE s

RECURSIVE TrimEnd(_)
TrimEnd(s) ==
    IF s # <<>> /\ s[Len(s)] \in WhiteSpace
    THEN TrimEnd(SubSeq(s, 1, Len(s) - 1))
    ELSE s

\* String.prototype.trim
Trim(s) == TrimEnd(TrimStart(s))

\* Number.prototype.toString, radix 10, of a non-negative integer
\* (the code unit of the digit d is 48 + d)
RECURSIVE ToString(_)
ToString(n) ==
    IF n < 10 THEN <<48 + n>>
    ELSE ToString(n \div 10) \o <<48 + (n % 10)>>

\* the identifiers the handlers may be given
IdDomain == { ToString(n) : n \in 0..MaxClock }

----------------------------------------------------------------------------
(* Values *)

\* editing = null
Null == [null |-> TRUE]

\* the Todo type
Todo(i, t, d, c) == [id |-> i, text |-> t, description |-> d, completed |-> c]

\* some record of ts has the identifier id
Present(ts, id) == \E i \in 1..Len(ts) : ts[i].id = id

----------------------------------------------------------------------------
(* Pure functions of the store *)

\* the updater of handleAdd
AddFn(prev, t, d, clock) ==
    Append(prev, Todo(ToString(clock), t, d, FALSE))

\* a faulty updater of handleEdit: it builds the record anew and loses the flag
EditFnResetsCompleted(prev, target, t, d) ==
    [i \in 1..Len(prev) |->
        IF target # Null /\ prev[i].id = target.id
        THEN Todo(prev[i].id, t, d, FALSE)
        ELSE prev[i]]

\* the updater of handleEdit; target is editing?.id, undefined when editing is null
EditFn(prev, target, t, d) ==
    [i \in 1..Len(prev) |->
        IF target # Null /\ prev[i].id = target.id
        THEN [prev[i] EXCEPT !.text = t, !.description = d]
        ELSE prev[i]]

DeleteKeeps(r, id) == r.id # id

\* the updater of handleDelete
DeleteFn(prev, id) == SelectSeq(prev, LAMBDA r : DeleteKeeps(r, id))

\* a faulty updater of handleToggle: it sets the flag instead of flipping it
ToggleFnSets(prev, id) ==
    [i \in 1..Len(prev) |->
        IF prev[i].id = id
        THEN [prev[i] EXCEPT !.completed = TRUE]
        ELSE prev[i]]

\* the updater of handleToggle
ToggleFn(prev, id) ==
    [i \in 1..Len(prev) |->
        IF prev[i].id = id
        THEN [prev[i] EXCEPT !.completed = ~prev[i].completed]
        ELSE prev[i]]

\* a faulty comparator: it never answers 0
CompareNoTie(a, b) == IF a.completed THEN 1 ELSE -1

\* the comparator given to sort
Compare(a, b) ==
    IF a.completed = b.completed THEN 0
    ELSE IF a.completed THEN 1 ELSE -1

\* one insertion of a stable sort: x goes after every element that does not
\* compare greater than it
RECURSIVE Insert(_, _)
Insert(sorted, x) ==
    IF sorted = <<>> THEN <<x>>
    ELSE IF Compare(sorted[Len(sorted)], x) <= 0 THEN Append(sorted, x)
    ELSE Append(Insert(SubSeq(sorted, 1, Len(sorted) - 1), x), sorted[Len(sorted)])

\* Array.prototype.sort with Compare: a stable sort
RECURSIVE Sort(_)
Sort(s) ==
    IF s = <<>> THEN <<>>
    ELSE Insert(Sort(SubSeq(s, 1, Len(s) - 1)), s[Len(s)])

\* const sortedTodos = [...todos].sort(...)
sortedTodos == Sort(todos)

----------------------------------------------------------------------------
(* TodoModal *)

\* initialText || "" : undefined (no target) and "" both give ""
OrEmpty(target, field) == IF target = Null THEN <<>> ELSE target[field]

\* the dependency array [initialText, initialDescription, visible]
Deps(target, visible) ==
    <<IF target = Null THEN Null ELSE [v |-> target.text],
      IF target = Null THEN Null ELSE [v |-> target.description],
      visible>>

\* a faulty effect: visible is missing from its dependency array
EffectRunsIgnoringVisible(target, visible, target2, visible2) ==
    <<Deps(target, visible)[1], Deps(target, visible)[2]>>
        # <<Deps(target2, visible2)[1], Deps(target2, visible2)[2]>>

\* the effect runs after a render whose dependencies differ from the last render's
EffectRuns(target, visible, target2, visible2) ==
    Deps(target, visible) # Deps(target2, visible2)

\* the render a handler causes, the handler having set the fields to t and d:
\* a waiting effect runs first, and its setText and setDescription, queued
\* after the handler's, win; the effect is scheduled anew when the
\* dependencies of the render differ from those of the render before
Rerender(target2, visible2, t, d) ==
    /\ text' = IF pending THEN OrEmpty(editing, "text") ELSE t
    /\ description' = IF pending THEN OrEmpty(editing, "description") ELSE d
    /\ pending' = EffectRuns(editing, modalVisible, target2, visible2)

\* a faulty test: if (text)
CanSaveUntrimmed(t) == t # <<>>

\* the test both save handlers make: if (text.trim())
CanSave(t) == Trim(t) # <<>>

----------------------------------------------------------------------------
Init ==
    /\ todos = <<>>
    /\ modalVisible = FALSE
    /\ editing = Null
    /\ text = <<>>
    /\ description = <<>>
    /\ pending = TRUE
    /\ now = 0
    /\ removed = {}
    /\ last = "none"

\* the wall clock advances
Tick ==
    /\ now < MaxClock
    /\ now' = now + 1
    /\ last' = "none"
    /\ UNCHANGED <<todos, modalVisible, editing, text, description, pending, removed>>

\* the scheduled effect of TodoModal runs; the render its setText and
\* setDescription cause has the same dependencies
useEffect ==
    /\ pending
    /\ text' = OrEmpty(editing, "text")
    /\ description' = OrEmpty(editing, "description")
    /\ pending' = FALSE
    /\ last' = "none"
    /\ UNCHANGED <<todos, modalVisible, editing, now, removed>>

\* onChangeText of the title input
setText ==
    /\ modalVisible
    /\ \E t \in TypedTitles :
        /\ Len(t) <= TitleMaxLength
        /\ t # text
        /\ Rerender(editing, modalVisible, t, description)
    /\ last' = "none"
    /\ UNCHANGED <<todos, modalVisible, editing, now, removed>>

\* onChangeText of the description input
setDescription ==
    /\ modalVisible
    /\ \E d \in TypedDescriptions :
        /\ Len(d) <= DescriptionMaxLength
        /\ d # description
        /\ Rerender(editing, modalVisible, text, d)
    /\ last' = "none"
    /\ UNCHANGED <<todos, modalVisible, editing, now, removed>>

\* onPress of the floating add button (BeginCreate)
fabOnPress ==
    /\ editing' = Null
    /\ modalVisible' = TRUE
    /\ Rerender(Null, TRUE, text, description)
    /\ last' = "none"
    /\ UNCHANGED <<todos, now, removed>>

\* onEdit of a rendered item (BeginEdit)
onEdit ==
    \E i \in 1..Len(sortedTodos) :
        LET item == sortedTodos[i]
            target == [id |-> item.id, text |-> item.text,
                       description |-> item.description]
        IN  /\ editing' = target
            /\ modalVisible' = TRUE
            /\ Rerender(target, TRUE, text, description)
            /\ last' = "none"
            /\ UNCHANGED <<todos, now, removed>>

\* onClose of the modal: the Cancel button and onRequestClose
onClose ==
    /\ modalVisible
    /\ editing' = Null
    /\ modalVisible' = FALSE
    /\ Rerender(Null, FALSE, text, description)
    /\ last' = "onClose"
    /\ UNCHANGED <<todos, now, removed>>

handleAdd(t, d) ==
    /\ Len(todos) < MaxTodos
    /\ todos' = AddFn(todos, t, d, now)
    /\ modalVisible' = FALSE
    /\ UNCHANGED editing
    /\ Rerender(editing, FALSE, text, description)
    /\ last' = "handleAdd"
    /\ UNCHANGED <<now, removed>>

\* a faulty handleEdit: it does not call setEditing(null)
handleEditKeepsTarget(t, d) ==
    /\ todos' = EditFn(todos, editing, t, d)
    /\ UNCHANGED editing
    /\ modalVisible' = FALSE
    /\ Rerender(editing, FALSE, text, description)
    /\ last' = IF Present(todos, editing.id) THEN "handleEdit"
                ELSE "handleEditAbsent"
    /\ UNCHANGED <<now, removed>>

handleEdit(t, d) ==
    /\ todos' = EditFn(todos, editing, t, d)
    /\ editing' = Null
    /\ modalVisible' = FALSE
    /\ Rerender(Null, FALSE, text, description)
    /\ last' = IF Present(todos, editing.id) THEN "handleEdit"
                ELSE "handleEditAbsent"
    /\ UNCHANGED <<now, removed>>

\* the onSave prop App gives to TodoModal
onSave(t, d) ==
    IF editing # Null THEN handleEdit(t, d) ELSE handleAdd(t, d)

\* a save handler whose test fails sets no state: nothing is rendered
Suppressed ==
    /\ last' = "suppressed"
    /\ UNCHANGED <<todos, modalVisible, editing, text, description, pending,
                   now, removed>>

\* onSubmitEditing of the title input
onSubmitEditing ==
    /\ modalVisible
    /\ IF CanSave(text)
       THEN onSave(Trim(text), Trim(description))
       ELSE Suppressed

\* onPress of the Save button
saveOnPress ==
    /\ modalVisible
    /\ IF CanSave(text)
       THEN onSave(Trim(text), Trim(description))
       ELSE Suppressed

\* handleDelete(id); the identifier may be any, also one no record has
handleDelete ==
    \E id \in IdDomain :
        /\ todos' = DeleteFn(todos, id)
        /\ Rerender(editing, modalVisible, text, description)
        /\ last' = "none"
        /\ UNCHANGED <<modalVisible, editing, now, removed>>

\* handleDelete(id), with the deleted identifier recorded in the history
handleDeleteRecorded ==
    \E id \in IdDomain :
        /\ todos' = DeleteFn(todos, id)
        /\ Rerender(editing, modalVisible, text, description)
        /\ removed' = IF Present(todos, id) THEN removed \cup {id} ELSE removed
        /\ last' = "none"
        /\ UNCHANGED <<modalVisible, editing, now>>

\* handleToggle(id); the identifier may be any, also one no record has
handleToggle ==
    \E id \in IdDomain :
        /\ todos' = ToggleFn(todos, id)
        /\ Rerender(editing, modalVisible, text, description)
        /\ last' = "none"
        /\ UNCHANGED <<modalVisible, editing, now, removed>>

Next ==
    \/ Tick
    \/ useEffect
    \/ setText
    \/ setDescription
    \/ fabOnPress
    \/ onEdit
    \/ onClose
    \/ onSubmitEditing
    \/ saveOnPress
    \/ handleDelete
    \/ handleToggle

Spec == Init /\ [][Next]_vars

\* the same program, with the history of deleted identifiers recorded
NextRecorded ==
    \/ Tick
    \/ useEffect
    \/ setText
    \/ setDescription
    \/ fabOnPress
    \/ onEdit
    \/ onClose
    \/ onSubmitEditing
    \/ saveOnPress
    \/ handleDeleteRecorded
    \/ handleToggle

SpecRecorded == Init /\ [][NextRecorded]_vars

----------------------------------------------------------------------------
(* Steps, told apart without the definitions of the handlers *)

\* every character of s is white space (s may be empty)
Blank(s) == \A k \in 1..Len(s) : s[k] \in WhiteSpace

\* the step was a save handler that called onSave
Committed == last' \in {"handleAdd", "handleEdit", "handleEditAbsent"}

\* the record a commit writes from the fields, given its identifier and flag
Written(id, c) == Todo(id, Trim(text), Trim(description), c)

\* the session is closed and has no target
Closed == ~modalVisible /\ editing = Null

----------------------------------------------------------------------------
(* C1: in every reachable state no two records of the store share an       *)
(* identifier.                                                             *)
C1_UniqueIds ==
    \A i, j \in 1..Len(todos) : i # j => todos[i].id # todos[j].id

(* C2: the displayed list is a stable partition of the canonical list by   *)
(* the completion flag: same length, every incomplete record before every  *)
(* completed one, and each of the two groups in canonical order.           *)
C2_StablePartition ==
    LET d == sortedTodos
        open(r) == ~r.completed
        done(r) == r.completed
    IN  /\ Len(d) = Len(todos)
        /\ \A i, j \in 1..Len(d) : (i < j /\ d[i].completed) => d[j].completed
        /\ SelectSeq(d, open) = SelectSeq(todos, open)
        /\ SelectSeq(d, done) = SelectSeq(todos, done)

\* a store the display must reorder: a completed record before an incomplete one
C2_Witness ==
    \E i, j \in 1..Len(todos) :
        i < j /\ todos[i].completed /\ ~todos[j].completed

\* what C3 says of a commit in an edit session
C3_EditPost ==
    /\ Len(todos') = Len(todos)
    /\ \E i \in 1..Len(todos') : todos'[i].id = editing.id
    /\ \A i \in 1..Len(todos) :
          (todos[i].id = editing.id)
            => (todos'[i] = Written(editing.id, todos[i].completed))
    /\ Closed'

\* what C3 says of a commit in a create session
C3_CreatePost ==
    /\ Len(todos') = Len(todos) + 1
    /\ SubSeq(todos', 1, Len(todos)) = todos
    /\ \E id \in IdDomain : todos'[Len(todos')] = Written(id, FALSE)
    /\ Closed'

(* C3 as stated: every commit of an edit session leaves a record with the  *)
(* target's identifier carrying the new title and note, flag, position and *)
(* length unchanged, session closed; every commit of a create session      *)
(* appends one incomplete record and closes the session.                   *)
C3_CommitAsStated ==
    [][ Committed =>
          IF editing # Null THEN C3_EditPost ELSE C3_CreatePost ]_vars

(* C3, amended: the same, for the commits of an edit session whose target  *)
(* is still in the store.                                                  *)
C3_Commit ==
    [][ Committed =>
          IF editing # Null
          THEN (Present(todos, editing.id) => C3_EditPost)
          ELSE C3_CreatePost ]_vars

\* an edit session was just committed onto a record of the store
C3_Witness ==
    /\ last = "handleEdit"
    /\ \E i \in 1..Len(todos) : todos[i].description = <<110>>

(* C4: a save attempt whose title is empty or all white space changes      *)
(* nothing: the store, the session, its target and the fields stay.        *)
C4_BlankRejected ==
    [][ (modalVisible /\ Blank(text) /\ (saveOnPress \/ onSubmitEditing))
          => UNCHANGED <<todos, modalVisible, editing, text, description>> ]_vars

\* a white-space title was just refused in an edit session
C4_Witness ==
    /\ last = "suppressed"
    /\ text # <<>>
    /\ Blank(text)
    /\ editing # Null
    /\ todos # <<>>

(* C5: every Add lengthens the list by exactly one, every Remove of a      *)
(* present identifier shortens it by exactly one, and nothing else changes *)
(* its length (so the length is the Adds minus those Removes).             *)
C5_Length ==
    [][ /\ (last' = "handleAdd") => (Len(todos') = Len(todos) + 1)
        /\ \A id \in IdDomain :
              (handleDelete /\ todos' = DeleteFn(todos, id))
                => (Len(todos') = IF Present(todos, id) THEN Len(todos) - 1
                                  ELSE Len(todos))
        /\ ~(last' = "handleAdd" \/ handleDelete)
              => (Len(todos') = Len(todos)) ]_vars

(* C6: once handleDelete has deleted a record with an identifier, a later  *)
(* toggle, delete or edit commit with that identifier leaves the store     *)
(* unchanged.                                                              *)
C6_RemovedIsNoOp ==
    [][ \A id \in removed :
          (\/ handleToggle /\ todos' = ToggleFn(todos, id)
           \/ handleDeleteRecorded /\ todos' = DeleteFn(todos, id)
           \/ Committed /\ editing # Null /\ editing.id = id)
            => (todos' = todos) ]_vars

(* C7: toggling an identifier twice gives back the store, and one toggle   *)
(* flips the flag of the records with that identifier and of no other.     *)
C7_ToggleInvolution ==
    \A id \in IdDomain :
        LET once == ToggleFn(todos, id)
        IN  /\ ToggleFn(once, id) = todos
            /\ Len(once) = Len(todos)
            /\ \A i \in 1..Len(todos) :
                  once[i].completed =
                    IF todos[i].id = id THEN ~todos[i].completed
                    ELSE todos[i].completed

\* a toggle has acted: only handleToggle sets a completion flag
C7_Witness ==
    \E i \in 1..Len(todos) : todos[i].completed

(* C8: Cancel closes the session, clears the target and leaves the store   *)
(* unchanged; a create session opened from the closed state starts with    *)
(* empty title and note fields.                                            *)
C8_Cancel ==
    [][ /\ (last' = "onClose") => (Closed' /\ todos' = todos)
        /\ (~modalVisible /\ modalVisible' /\ editing' = Null)
              => (text' = <<>> /\ description' = <<>>) ]_vars

\* a session over a non-empty store was just cancelled
C8_Witness ==
    /\ last = "onClose"
    /\ todos # <<>>

(* C9: a toggle and an edit commit change at most one record, and change   *)
(* no identifier, nor the number of records.                               *)
C9_OneRecord ==
    [][ (handleToggle \/ (Committed /\ editing # Null)) =>
          /\ Len(todos') = Len(todos)
          /\ \A i \in 1..Len(todos) : todos'[i].id = todos[i].id
          /\ Cardinality({i \in 1..Len(todos) : todos'[i] # todos[i]}) <= 1 ]_vars

\* the target of an edit session is taken from a record of the store
C10_TargetOfRecord ==
    \E i \in 1..Len(todos) :
        editing' = [id |-> todos[i].id, text |-> todos[i].text,
                    description |-> todos[i].description]

\* closed, open for create or open for edit: a hidden modal has no target
C10_OneOfThree == ~modalVisible => editing = Null

(* C10: before and after every step a hidden modal has no target; the add  *)
(* button opens the modal with no target; onEdit opens it with a target    *)
(* holding a record's identifier, title and note (stated by contrapositive:*)
(* a step that ends with a target that is not that of a record, or with a  *)
(* hidden modal, is not a step of onEdit, which always leaves a target);   *)
(* every commit and cancel closes it with no target; and a commit of a     *)
(* create session leaves the existing records as they were.                *)
C10_Session ==
    [][ /\ C10_OneOfThree /\ C10_OneOfThree'
        /\ fabOnPress => (modalVisible' /\ editing' = Null)
        /\ (editing' # Null /\ ~(modalVisible' /\ C10_TargetOfRecord)) => ~onEdit
        /\ (Committed \/ last' = "onClose") => Closed'
        /\ (Committed /\ editing = Null)
              => (SubSeq(todos', 1, Len(todos)) = todos) ]_vars

\* the session is open for the edit of a record of the store
C10_Witness ==
    /\ modalVisible
    /\ editing # Null
    /\ \E i \in 1..Len(todos) :
          editing = [id |-> todos[i].id, text |-> todos[i].text,
                     description |-> todos[i].description]

====
